---- MODULE Spec2Model ----
(***************************************************************************)
(* A model of the MICLLM batch pipeline: the Chunker and its metadata      *)
(* extraction (src/pre_process/process_text.py), the Indexer hand-off      *)
(* (src/pre_process/vector.py), the orchestrator (src/engine.py) and the   *)
(* Answer Parser and CSV Sink (src/post_process/store_results.py).         *)
(*                                                                         *)
(* Texts are sequences of tokens.  A token stands for a piece of text the  *)
(* code's regular expressions treat as a unit: a label, a delimiter line,  *)
(* a newline, a space, a date, a country-code pair or a run of other text. *)
(***************************************************************************)
EXTENDS Integers, Sequences, FiniteSets, TLC

VARIABLES
    \* Answer Parser (extract_data)
    lines,      \* the LLM answer, as the sequence of the kinds of its lines
    written,    \* how many times the answer was extended
    rows,       \* what extract_data returned for it
    ppc,        \* "build" while the answer is being written, then "parsed"
    \* Chunker (chunk_file_for_year_content / chunk_file_content)
    header,     \* the header section that precedes the body section
    articles,   \* the articles of the body section
    trailing,   \* how many sections follow that body section
    chunked,    \* what the chunker did: [raised, chunks]
    cpc,        \* "input", then the path taken: "tagged" or "general"
    \* CSV Sink (save_to_csv)
    csv,        \* the CSV file: [exists, content], content the sequence of its lines
    calls,      \* the answers save_to_csv was called with, in call order
    \* Orchestrator (engine.py)
    files,      \* the file names of the data directory, in walk order
    entry,      \* the function that was called: "main" or "post"
    pc,         \* position of the orchestrator
    idx,        \* index in files of the file being processed
    stores,     \* the paths under which an index is persisted
    cur,        \* what the current step holds: chunks, index handle or answer
    log,        \* the calls made so far, in order
    raised      \* the exception that ended the run, or "none"

vars == <<lines, written, rows, ppc, header, articles, chunked, cpc, trailing, csv, calls,
          files, entry, pc, idx, stores, cur, log, raised>>

parseVars == <<lines, written, rows, ppc>>
chunkVars == <<header, articles, trailing, chunked, cpc>>
csvVars   == <<csv, calls>>
runVars   == <<files, entry, pc, idx, stores, cur, log, raised>>

\* ---------------------------------------------------------------- bounds

MaxWrites == 4      \* lines or whole blocks an LLM answer is written in
MaxArticles == 2    \* articles of a body section
MaxPairs == 2       \* code pairs of a header section
MaxCalls == 4       \* save_to_csv calls on one path
MaxFiles == 2       \* files of the data directory

\* ------------------------------------------------------ sequence helpers

RECURSIVE Flatten(_)
Flatten(ss) == IF ss = <<>> THEN <<>> ELSE Head(ss) \o Flatten(Tail(ss))

Min(S) == CHOOSE x \in S : \A y \in S : x <= y
Max(S) == CHOOSE x \in S : \A y \in S : x >= y

\* ======================================================== Answer Parser

\* The text of line i of an answer: each line carries its own text, so a
\* captured field tells which line it was taken from.
Txt(i) == <<"t1", "t2", "t3", "t4", "t5", "t6", "t7", "t8", "t9", "t10",
            "t11", "t12", "t13", "t14", "t15", "t16", "t17", "t18", "t19", "t20",
            "t21", "t22", "t23", "t24", "t25", "t26", "t27", "t28">>[i]

LineKinds == {"date", "count", "countries", "blank", "prose"}

\* Line i of kind k as tokens, without its newline: "- Date: <text>",
\* "- Death Count: <text> " (with a space before the newline),
\* "- Countries involved: <text>", an empty line, or a line of other text.
LineTokens(k, i) ==
    CASE k = "date"      -> <<"D", "SP", Txt(i)>>
      [] k = "count"     -> <<"C", "SP", Txt(i), "SP">>
      [] k = "countries" -> <<"K", "SP", Txt(i)>>
      [] k = "blank"     -> <<>>
      [] k = "prose"     -> <<Txt(i)>>

\* The answer text: every line followed by a newline.
AnswerText(ls) == Flatten([i \in 1..Len(ls) |-> LineTokens(ls[i], i) \o <<"NL">>])

IsWs(t) == t \in {"NL", "SP"}

\* \s* read greedily from position p of w: the position after the run.
RECURSIVE WsEnd(_, _)
WsEnd(w, p) == IF p <= Len(w) /\ IsWs(w[p]) THEN WsEnd(w, p + 1) ELSE p

\* str.strip()
RECURSIVE strip(_)
strip(s) ==
    IF s = <<>> THEN s
    ELSE IF IsWs(Head(s)) THEN strip(Tail(s))
    ELSE IF IsWs(s[Len(s)]) THEN strip(SubSeq(s, 1, Len(s) - 1))
    ELSE s

\* The pattern of extract_data (line 46), matched with re.DOTALL:
\*   -\sDate:\s*(.+?)\n\s*-\sDeath\sCount:\s*(.+?)\n\s*-\sCountries\sinvolved:\s*(.+?)\n\n
\* \s* is greedy (the longest run is tried first), (.+?) is lazy (the
\* shortest capture is tried first) and . matches a newline too.  The match
\* the backtracking search returns is the first in that order of choices.
\* A match is <<a, e1, b, e2, d, e3>>: the captures are w[a..e1-1],
\* w[b..e2-1] and w[d..e3-1], and the match ends after e3 + 1; <<>> is no match.

\* The choice tried first: the last of the starts S, the first of the ends S
\* (0 when there is none).
LastOf(S) == IF S = {} THEN 0 ELSE Max(S)
FirstOf(S) == IF S = {} THEN 0 ELSE Min(S)

\* The end of the pattern, \n\n, at position e.
CountriesEndOneNewline(w, e) == w[e] = "NL"
CountriesEnd(w, e) == e < Len(w) /\ w[e] = "NL" /\ w[e + 1] = "NL"

\* After "- Countries involved:" at position k: \s*(.+?)\n\n
Ends3(w, d) == {e \in (d + 1)..Len(w) : CountriesEnd(w, e)}
CountriesFrom(w, d) == IF d = 0 THEN <<>> ELSE <<d, FirstOf(Ends3(w, d))>>
MatchCountries(w, k) ==
    CountriesFrom(w, LastOf({d \in (k + 1)..WsEnd(w, k + 1) : Ends3(w, d) # {}}))

\* After "- Death Count:" at position c:
\* \s*(.+?)\n\s*-\sCountries\sinvolved: and then the part above.
CountriesAt(w, k) == k <= Len(w) /\ w[k] = "K" /\ MatchCountries(w, k) # <<>>
Ends2(w, b) == {e \in (b + 1)..Len(w) : w[e] = "NL" /\ CountriesAt(w, WsEnd(w, e + 1))}
CountTail(w, b, e) == <<b, e>> \o MatchCountries(w, WsEnd(w, e + 1))
CountFrom(w, b) == IF b = 0 THEN <<>> ELSE CountTail(w, b, FirstOf(Ends2(w, b)))
MatchCount(w, c) ==
    CountFrom(w, LastOf({b \in (c + 1)..WsEnd(w, c + 1) : Ends2(w, b) # {}}))

\* The whole pattern, with "- Date:" at position s:
\* -\sDate:\s*(.+?)\n\s*-\sDeath\sCount: and then the part above.
CountAt(w, c) == c <= Len(w) /\ w[c] = "C" /\ MatchCount(w, c) # <<>>
Ends1(w, a) == {e \in (a + 1)..Len(w) : w[e] = "NL" /\ CountAt(w, WsEnd(w, e + 1))}
DateTail(w, a, e) == <<a, e>> \o MatchCount(w, WsEnd(w, e + 1))
DateFrom(w, a) == IF a = 0 THEN <<>> ELSE DateTail(w, a, FirstOf(Ends1(w, a)))
MatchDate(w, s) ==
    DateFrom(w, LastOf({a \in (s + 1)..WsEnd(w, s + 1) : Ends1(w, a) # {}}))

\* re.findall: the leftmost match from position p on, then on from its end;
\* each match gives the tuple of its three captures.
Captures(w, m) ==
    <<SubSeq(w, m[1], m[2] - 1), SubSeq(w, m[3], m[4] - 1), SubSeq(w, m[5], m[6] - 1)>>
RECURSIVE findall(_, _)
MatchesFromMatch(w, m) == <<Captures(w, m)>> \o findall(w, m[6] + 2)
MatchesFrom(w, s) == IF s = 0 THEN <<>> ELSE MatchesFromMatch(w, MatchDate(w, s))
findall(w, p) ==
    MatchesFrom(w, FirstOf({s \in p..Len(w) : w[s] = "D" /\ MatchDate(w, s) # <<>>}))

\* The dictionaries of the list comprehension (lines 51-57).
Fact(date, death_count, countries) ==
    [Date |-> strip(date), DeathCount |-> strip(death_count), Countries |-> strip(countries)]
FactUnstripped(date, death_count, countries) ==
    [Date |-> date, DeathCount |-> death_count, Countries |-> countries]
Facts(matches) ==
    [i \in 1..Len(matches) |-> Fact(matches[i][1], matches[i][2], matches[i][3])]
FactsUnstripped(matches) ==
    [i \in 1..Len(matches) |-> FactUnstripped(matches[i][1], matches[i][2], matches[i][3])]

\* A variant that keeps the captures as matched, without strip().
extract_data_unstripped(answer) == FactsUnstripped(findall(answer, 1))

\* extract_data(model_response), answer being model_response["result"]
extract_data(answer) == Facts(findall(answer, 1))

InitIdleChunk ==
    header = <<>> /\ articles = <<>> /\ trailing = 0 /\ chunked = <<>> /\ cpc = "idle"
NoFile == [exists |-> FALSE, content |-> <<>>]
InitIdleCsv == csv = NoFile /\ calls = <<>>
InitIdleRun ==
    /\ files = <<>> /\ entry = "none" /\ pc = "idle" /\ idx = 0
    /\ stores = {} /\ cur = <<>> /\ log = <<>> /\ raised = "none"

InitParse ==
    /\ lines = <<>> /\ written = 0 /\ rows = <<>> /\ ppc = "build"
    /\ InitIdleChunk /\ InitIdleCsv /\ InitIdleRun

\* The LLM writes one more line of its answer.
WriteLine(k) ==
    /\ ppc = "build"
    /\ written < MaxWrites
    /\ lines' = Append(lines, k)
    /\ written' = written + 1
    /\ UNCHANGED <<rows, ppc>>
    /\ UNCHANGED <<chunkVars, csvVars, runVars>>

\* The LLM writes a block in the format the prompt asks for (chain.py, the
\* prompt's "Format your response as follows"), followed by an empty line.
WriteBlock ==
    /\ ppc = "build"
    /\ written < MaxWrites
    /\ lines' = lines \o <<"date", "count", "countries", "blank">>
    /\ written' = written + 1
    /\ UNCHANGED <<rows, ppc>>
    /\ UNCHANGED <<chunkVars, csvVars, runVars>>

\* extract_data({"result": answer})
Parse ==
    /\ ppc = "build"
    /\ rows' = extract_data(AnswerText(lines))
    /\ ppc' = "parsed"
    /\ UNCHANGED <<lines, written>>
    /\ UNCHANGED <<chunkVars, csvVars, runVars>>

NextParse == (\E k \in LineKinds : WriteLine(k)) \/ WriteBlock \/ Parse

SpecParse == InitParse /\ [][NextParse]_vars

\* ------------------------------------------------ Answer Parser: claims

\* Lines i..i+2 are a Date, a Death Count and a Countries involved line.
FieldsAt(ls, i) ==
    /\ i >= 1 /\ i + 2 <= Len(ls)
    /\ ls[i] = "date" /\ ls[i + 1] = "count" /\ ls[i + 2] = "countries"

\* ... and line i+3 is empty: a block of the form the parser looks for.
BlockAt(ls, i) == FieldsAt(ls, i) /\ i + 3 <= Len(ls) /\ ls[i + 3] = "blank"

\* The fact of the block at line i: the texts of its three lines.
BlockFact(i) ==
    [Date |-> <<Txt(i)>>, DeathCount |-> <<Txt(i + 1)>>, Countries |-> <<Txt(i + 2)>>]

\* One fact per block, in order of appearance.
RECURSIVE BlockFactsFrom(_, _)
BlockFactsFrom(ls, i) ==
    IF i > Len(ls) THEN <<>>
    ELSE (IF BlockAt(ls, i) THEN <<BlockFact(i)>> ELSE <<>>) \o BlockFactsFrom(ls, i + 1)
BlockFacts(ls) == BlockFactsFrom(ls, 1)

\* The texts a row was made of.
RowTexts(r) ==
    {r.Date[j] : j \in 1..Len(r.Date)}
        \cup {r.DeathCount[j] : j \in 1..Len(r.DeathCount)}
        \cup {r.Countries[j] : j \in 1..Len(r.Countries)}

\* C5 as stated: for every answer text, extract_data returns exactly one
\* ExtractedFact per block "- Date: / - Death Count: / - Countries involved: /
\* blank line", in order, each field the trimmed text of the block's line, and
\* the empty sequence when the answer holds no such block.
C5_OneFactPerBlock == ppc = "parsed" => rows = BlockFacts(lines)

\* C5 amended: the same, for every answer in which each "- Date:" line begins
\* such a block (no "- Date:" line is left without its three following lines).
EveryDateBeginsBlock(ls) == \A i \in 1..Len(ls) : ls[i] = "date" => BlockAt(ls, i)
C5_OneFactPerBlockWhenDatesBeginBlocks ==
    (ppc = "parsed" /\ EveryDateBeginsBlock(lines)) => rows = BlockFacts(lines)

\* C5 witness: an answer of prose and two blocks was parsed into two facts.
C5_Witness ==
    /\ ppc = "parsed" /\ EveryDateBeginsBlock(lines)
    /\ Len(rows) = 2 /\ "prose" \in {lines[i] : i \in 1..Len(lines)}

\* C10 as stated: a block whose "Countries involved" line is not followed by
\* an empty line produces no ExtractedFact: no row is made of its texts.
C10_UnterminatedBlockYieldsNoFact ==
    ppc = "parsed" =>
        \A i \in 1..Len(lines) :
            (FieldsAt(lines, i) /\ ~BlockAt(lines, i)) =>
                \A j \in 1..Len(rows) : Txt(i) \notin RowTexts(rows[j])

\* An answer of exactly k blocks of which only the first k-1 are followed by
\* an empty line.
KBlocksLastOpen(ls, k) ==
    /\ Len(ls) = 4 * k - 1
    /\ \A j \in 0..(k - 1) :
          /\ FieldsAt(ls, 4 * j + 1)
          /\ j < k - 1 => ls[4 * j + 4] = "blank"

\* C10 amended: a block at the end of the answer whose "Countries involved"
\* line is not followed by an empty line produces no ExtractedFact, so an
\* answer of k blocks of which only the first k-1 are followed by an empty line
\* yields the k-1 rows of the first k-1 blocks.
C10_FinalUnterminatedBlockYieldsNoFact ==
    ppc = "parsed" =>
        /\ FieldsAt(lines, Len(lines) - 2) =>
              \A j \in 1..Len(rows) :
                  RowTexts(rows[j]) \cap
                      {Txt(Len(lines) - 2), Txt(Len(lines) - 1), Txt(Len(lines))} = {}
        /\ \A k \in 1..MaxWrites :
              KBlocksLastOpen(lines, k) =>
                  Len(rows) = k - 1 /\ rows = BlockFacts(lines)

\* C10 witness: two blocks, the second one unterminated, gave one row.
C10_Witness == ppc = "parsed" /\ KBlocksLastOpen(lines, 2) /\ Len(rows) = 1

\* ============================================================== Chunker

\* Python values the chunker's variable `codes` takes: a list of tuples, a
\* tuple of strings, a string (a sequence of characters) or None.
PyNone == [tag |-> "None", val |-> <<>>]
PyList(v) == [tag |-> "list", val |-> v]
PyTuple(v) == [tag |-> "tuple", val |-> v]
PyStr(v) == [tag |-> "str", val |-> v]

\* v[0]: an item of a list, an element of a tuple, a character of a string.
PyFirst(v) ==
    CASE v.tag = "list"  -> PyTuple(v.val[1])
      [] v.tag = "tuple" -> PyStr(v.val[1])
      [] v.tag = "str"   -> PyStr(<<v.val[1]>>)

\* The code pairs a header can name, and what ([A-Z]+)-([A-Z]+) captures.
Pairs == {"US-GB", "FR-DE"}
PairCodes(t) ==
    IF t = "US-GB" THEN <<<<"U", "S">>, <<"G", "B">>>>
    ELSE <<<<"F", "R">>, <<"D", "E">>>>

\* Texts of article j: its title, and the two paragraphs of its body.
Title(j) == <<"title1", "title2", "title3", "title4">>[j]
Body(j) == <<"body1", "body2", "body3", "body4">>[j]
More(j) == <<"more1", "more2", "more3", "more4">>[j]

\* An article of the archive: a title, a date line ("DATEW": "March 20, 2003,
\* Thursday", "DATE": "March 20, 2003", or none), and, when it has its
\* "SVM score:" line, the body after that line.
ArticleShapes ==
    [date : {"none", "DATE", "DATEW"}, rest : {"nosvm", "empty", "one", "two"}]

ArticleTokens(a, j) ==
    <<Title(j)>>
        \o (IF a.date = "none" THEN <<>> ELSE <<a.date>>)
        \o (CASE a.rest = "nosvm" -> <<>>
              [] a.rest = "empty" -> <<"SVM">>
              [] a.rest = "one"   -> <<"SVM", Body(j)>>
              [] a.rest = "two"   -> <<"SVM", Body(j), More(j)>>)

RECURSIVE Join(_, _)
Join(ss, d) ==
    IF ss = <<>> THEN <<>>
    ELSE IF Len(ss) = 1 THEN ss[1]
    ELSE ss[1] \o <<d>> \o Join(Tail(ss), d)

\* The file: a preamble, the header section, the body section with its
\* articles, then `trailing` more sections (a header, and a body of one
\* article), every two separated by a line of "=" ("EQ"); the articles of a
\* body are separated by a line of "-" ("DASH").
FileContent(h, as, t) ==
    Join(<<<<"preamble">>,
           <<"headline">> \o h,
           Join([j \in 1..Len(as) |-> ArticleTokens(as[j], j)], "DASH")>>
         \o (IF t >= 1 THEN <<<<"headline", "FR-DE", "US-GB">>>> ELSE <<>>)
         \o (IF t >= 2 THEN <<<<"titleZ", "DATEW", "SVM", "bodyZ">>>> ELSE <<>>),
         "EQ")

\* re.split(pattern, text), for a pattern that matches the token d.
RECURSIVE resplitFrom(_, _, _)
resplitFrom(w, d, acc) ==
    IF w = <<>> THEN <<acc>>
    ELSE IF Head(w) = d THEN <<acc>> \o resplitFrom(Tail(w), d, <<>>)
    ELSE resplitFrom(Tail(w), d, Append(acc, Head(w)))
resplit(w, d) == resplitFrom(w, d, <<>>)

\* re.findall(r'([A-Z]+)-([A-Z]+)', section)
RECURSIVE findall_codes(_)
findall_codes(w) ==
    IF w = <<>> THEN <<>>
    ELSE (IF Head(w) \in Pairs THEN <<PairCodes(Head(w))>> ELSE <<>>)
             \o findall_codes(Tail(w))

\* What date_pattern matches: the weekday name is not optional in it.
DateMatches(t) == t = "DATEW"

\* re.search(date_pattern, fragment), then published_date[0] when found.
RECURSIVE search_date(_)
search_date(w) ==
    IF w = <<>> THEN "None"
    ELSE IF DateMatches(Head(w)) THEN Head(w)
    ELSE search_date(Tail(w))

\* splitter.split_text(text): every paragraph of these texts is a chunk of
\* its own; an empty text gives no chunk.
split_text(w) == w

\* The body of the loop over the articles of one section (lines 73-94):
\* [raised, chunks] after the articles as, from codes and result.
RECURSIVE chunk_articles(_, _, _)
chunk_articles(as, codes, result) ==
    IF as = <<>> THEN [raised |-> "none", chunks |-> result]
    ELSE
        LET content == resplit(Head(as), "SVM")
            published_date == search_date(content[1])
        IN  IF codes.tag = "None"
            THEN [raised |-> "TypeError", chunks |-> <<>>]      \* len(None)
            ELSE
                LET codes2 == IF Len(codes.val) > 1 THEN PyFirst(codes) ELSE PyNone
                IN  IF Len(content) < 2
                    THEN [raised |-> "IndexError", chunks |-> <<>>]  \* content[1]
                    ELSE
                        LET chunks == split_text(content[2])
                        IN  chunk_articles(Tail(as), codes2,
                                result \o [c \in 1..Len(chunks) |->
                                    [content |-> chunks[c],
                                     country_codes |-> codes2,
                                     published_date |-> published_date]])

\* The loop over the sections: for i in range(2, len(sections), 2), with
\* sections[i] at position i + 1 of the sequence.
RECURSIVE chunk_sections(_, _, _)
chunk_sections(sections, i, result) ==
    IF i + 1 > Len(sections) THEN [raised |-> "none", chunks |-> result]
    ELSE
        LET codes == PyList(findall_codes(sections[i]))
            news_articles == resplit(sections[i + 1], "DASH")
            r == chunk_articles(news_articles, codes, result)
        IN  IF r.raised # "none" THEN r
            ELSE chunk_sections(sections, i + 2, r.chunks)

chunk_file_for_year_content(content) ==
    chunk_sections(resplit(content, "EQ"), 2, <<>>)

chunk_file_content(content) ==
    LET sections == resplit(content, "UNDERSCORES")
        chunks == Flatten([i \in 1..Len(sections) |-> split_text(sections[i])])
    IN  [raised |-> "none",
         chunks |-> [c \in 1..Len(chunks) |->
                        [content |-> chunks[c],
                         country_codes |-> PyNone,
                         published_date |-> "None"]]]

RECURSIVE SeqsUpTo(_, _)
SeqsUpTo(S, n) ==
    IF n = 0 THEN {<<>>}
    ELSE LET shorter == SeqsUpTo(S, n - 1)
         IN  shorter \cup {Append(q, x) : q \in {r \in shorter : Len(r) = n - 1}, x \in S}

InitChunk ==
    /\ header \in SeqsUpTo(Pairs, MaxPairs)
    /\ articles \in SeqsUpTo(ArticleShapes, MaxArticles) \ {<<>>}
    /\ trailing \in 0..2
    /\ chunked = <<>> /\ cpc = "input"
    /\ lines = <<>> /\ written = 0 /\ rows = <<>> /\ ppc = "idle"
    /\ InitIdleCsv /\ InitIdleRun

\* The file is chunked on the tagged-era path.
ChunkTagged ==
    /\ cpc = "input"
    /\ chunked' = chunk_file_for_year_content(FileContent(header, articles, trailing))
    /\ cpc' = "tagged"
    /\ UNCHANGED <<header, articles, trailing>>
    /\ UNCHANGED <<parseVars, csvVars, runVars>>

\* The file is chunked on the general path.
ChunkGeneral ==
    /\ cpc = "input"
    /\ chunked' = chunk_file_content(FileContent(header, articles, trailing))
    /\ cpc' = "general"
    /\ UNCHANGED <<header, articles, trailing>>
    /\ UNCHANGED <<parseVars, csvVars, runVars>>

NextChunk == ChunkTagged \/ ChunkGeneral

SpecChunk == InitChunk /\ [][NextChunk]_vars

\* ------------------------------------------------------ Chunker: claims

\* The article of the first body section that a chunk was cut from.
ArticleIndex(t) == CHOOSE j \in 1..Len(articles) : t \in {Body(j), More(j)}

\* The first code pair of the header that precedes the chunk's section, or
\* None when that header holds no pair.
FirstPairOfHeader(t) ==
    IF t = "bodyZ" THEN PyTuple(PairCodes("FR-DE"))
    ELSE IF header = <<>> THEN PyNone
    ELSE PyTuple(PairCodes(header[1]))

\* The date line of the chunk's article, with or without its weekday name.
DateOfArticle(t) ==
    IF t = "bodyZ" THEN "DATEW"
    ELSE IF articles[ArticleIndex(t)].date = "none" THEN "None"
    ELSE articles[ArticleIndex(t)].date

\* C2: on the tagged-era path every chunk of every article of a body section
\* carries the first code pair of the preceding header section when that
\* header holds one or more pairs, and no country_codes exactly when it holds
\* none.
C2_CodesAreFirstPairOfHeader ==
    cpc = "tagged" =>
        \A c \in 1..Len(chunked.chunks) :
            chunked.chunks[c].country_codes = FirstPairOfHeader(chunked.chunks[c].content)

\* C3: chunking returns a chunk sequence and never raises, on the tagged-era
\* and on the general path, whatever the content.
C3_ChunkingNeverRaises == cpc \in {"tagged", "general"} => chunked.raised = "none"

\* C4: on the tagged-era path every chunk carries as published_date the text
\* of the first date before the article's score line, the weekday name being
\* optional, and no published_date exactly when there is no such date.
C4_DateWithOptionalWeekday ==
    cpc = "tagged" =>
        \A c \in 1..Len(chunked.chunks) :
            chunked.chunks[c].published_date = DateOfArticle(chunked.chunks[c].content)

\* ============================================================= CSV Sink

\* writer.writeheader(): the line of the three field names.
HeaderLine == <<<<"Date">>, <<"Death Count">>, <<"Countries involved">>>>

\* writer.writerows(data): one line per row, the fields in fieldnames order.
RowLines(data) ==
    [i \in 1..Len(data) |-> <<data[i].Date, data[i].DeathCount, data[i].Countries>>]

\* A variant that writes the header on every call.
save_to_csv_header_always(file, model_response) ==
    [exists |-> TRUE,
     content |-> file.content \o <<HeaderLine>> \o RowLines(extract_data(model_response))]

\* save_to_csv(model_response, filename) on the file at filename: the file
\* it leaves behind.
save_to_csv(file, model_response) ==
    LET data == extract_data(model_response)
        file_exists == file.exists
    IN  [exists |-> TRUE,
         content |-> file.content
                        \o (IF ~file_exists THEN <<HeaderLine>> ELSE <<>>)
                        \o RowLines(data)]

\* Answers of the LLM: prose only (no row), one block, two blocks, and prose
\* followed by a block and by a block without its empty line.
Block == <<"date", "count", "countries", "blank">>
Answers ==
    {<<"prose">>,
     Block,
     Block \o Block,
     <<"prose">> \o Block \o <<"date", "count", "countries">>}

InitCsv ==
    /\ csv = NoFile /\ calls = <<>>
    /\ lines = <<>> /\ written = 0 /\ rows = <<>> /\ ppc = "idle"
    /\ InitIdleChunk /\ InitIdleRun

\* One call of save_to_csv on the path.
SaveToCsv(a) ==
    /\ Len(calls) < MaxCalls
    /\ csv' = save_to_csv(csv, AnswerText(a))
    /\ calls' = Append(calls, a)
    /\ UNCHANGED <<parseVars, chunkVars, runVars>>

NextCsv == \E a \in Answers : SaveToCsv(a)

SpecCsv == InitCsv /\ [][NextCsv]_vars

\* ----------------------------------------------------- CSV Sink: claims

\* The rows of every call so far, in call order.
RowsOfCalls(cs) == Flatten([i \in 1..Len(cs) |-> RowLines(extract_data(AnswerText(cs[i])))])

\* C6: after one or more save_to_csv calls on a path that did not exist, the
\* file is the header line, once and first, followed by the rows of every
\* call in call order (so no earlier row was removed or rewritten).
C6_HeaderOnceThenAllRows ==
    Len(calls) >= 1 =>
        csv.exists /\ csv.content = <<HeaderLine>> \o RowsOfCalls(calls)

\* C6 witness: a first call that parsed to no row, then calls with rows.
C6_Witness ==
    /\ Len(calls) >= 3 /\ calls[1] = <<"prose">>
    /\ Len(csv.content) >= 4

\* ========================================================= Orchestrator

DATA_PATH == "data/"

\* os.path.join(root, file): a path is the sequence of its components, so
\* that the bare name <<"2002.txt">> and the path <<"data/", "2002.txt">> differ.
join(root, file) == <<root, file>>

\* file.name of the file object open(file_path) returns: the path it was
\* opened with.
file_name(file_path) == file_path

\* The names the data directory can hold.
Names == {"2002.txt", "2011.txt", "notes.txt"}

\* The allow-list of read_txt_file (line 25).
EraFiles ==
    {<<"2002.txt">>, <<"2003.txt">>, <<"2004.txt">>, <<"2005.txt">>, <<"2006.txt">>,
     <<"2007.txt">>, <<"2008.txt">>, <<"2009.txt">>, <<"2010.txt">>, <<"2011.txt">>}

\* What is in a file of the data directory: a well-formed archive of one
\* section, its header naming two code pairs, with one dated article.
ArchiveText ==
    FileContent(<<"US-GB", "FR-DE">>, <<[date |-> "DATEW", rest |-> "two"]>>, 0)

\* read_txt_file(file_path): (chunks, file.name)
read_txt_file(file_path) ==
    LET content == ArchiveText
    IN  IF file_name(file_path) \in EraFiles
        THEN [chunked |-> chunk_file_for_year_content(content), name |-> file_name(file_path)]
        ELSE [chunked |-> chunk_file_content(content), name |-> file_name(file_path)]

\* get_file_name(file_path)
get_file_name(file_path) == file_name(file_path)

\* The documents of an index built from a chunk sequence.
Documents(chunks) ==
    [i \in 1..Len(chunks) |->
        [page_content |-> chunks[i].content,
         metadata |-> [country_codes |-> chunks[i].country_codes,
                       published_date |-> chunks[i].published_date]]]

\* create_vector_store(chunks, filename) with the persisted indexes st:
\* iterating a string gives its characters, and chunk["content"] on a
\* character raises TypeError; otherwise the index is saved under filename.
create_vector_store(chunks, filename, st) ==
    IF chunks.tag = "str"
    THEN [raised |-> "TypeError", stores |-> st]
    ELSE [raised |-> "none",
          stores |-> {x \in st : x.key # filename.val}
                        \cup {[key |-> filename.val, docs |-> Documents(chunks.val)]}]

\* A variant that calls the loader before it looks whether the index exists.
retrieve_vector_store_load_first(filename, st) ==
    IF \E x \in st : x.key = filename
    THEN [raised |-> "none", loader_called |-> TRUE]
    ELSE [raised |-> "FileNotFoundError", loader_called |-> TRUE]

\* retrieve_vector_store(filename) up to the call of FAISS.load_local.
retrieve_vector_store(filename, st) ==
    IF ~(\E x \in st : x.key = filename)
    THEN [raised |-> "FileNotFoundError", loader_called |-> FALSE]
    ELSE [raised |-> "none", loader_called |-> TRUE]

\* An index left under results/vector_stores/ by an earlier build.
OldIndex(n) == [key |-> join(DATA_PATH, n), docs |-> <<>>]

Entry(op, f) == [op |-> op, file |-> f]

InitRun ==
    /\ files \in {q \in SeqsUpTo(Names, MaxFiles) :
                        \A i, j \in 1..Len(q) : i # j => q[i] # q[j]}
    /\ stores \in SUBSET {OldIndex(n) : n \in Names}
    /\ entry = "none" /\ pc = "idle" /\ idx = 0
    /\ cur = <<>> /\ log = <<>> /\ raised = "none"
    /\ csv = NoFile /\ calls = <<>>
    /\ lines = <<>> /\ written = 0 /\ rows = <<>> /\ ppc = "idle"
    /\ InitIdleChunk

\* main(): pre_process_vector_store() comes first.
CallMain ==
    /\ pc = "idle" /\ entry = "none"
    /\ entry' = "main" /\ pc' = "pre_read" /\ idx' = 1
    /\ UNCHANGED <<files, stores, cur, log, raised>>
    /\ UNCHANGED <<parseVars, chunkVars, csvVars>>

\* post_process_results() called on its own, over the indexes on disk.
CallPostProcess ==
    /\ pc = "idle" /\ entry = "none"
    /\ entry' = "post" /\ pc' = "post_retrieve" /\ idx' = 1
    /\ UNCHANGED <<files, stores, cur, log, raised>>
    /\ UNCHANGED <<parseVars, chunkVars, csvVars>>

\* pre_process_vector_store, line 31: chunks, filename = read_txt_file(file_path)
ReadFile ==
    /\ pc = "pre_read" /\ idx <= Len(files)
    /\ LET r == read_txt_file(join(DATA_PATH, files[idx]))
       IN  /\ log' = Append(log, Entry("read", files[idx]))
           /\ IF r.chunked.raised # "none"
              THEN /\ raised' = r.chunked.raised /\ pc' = "aborted"
                   /\ UNCHANGED cur
              ELSE /\ cur' = [chunks |-> PyList(r.chunked.chunks), filename |-> PyStr(r.name)]
                   /\ pc' = "pre_create"
                   /\ UNCHANGED raised
    /\ UNCHANGED <<files, entry, idx, stores>>
    /\ UNCHANGED <<parseVars, chunkVars, csvVars>>

\* pre_process_vector_store, line 32: create_vector_store(filename, chunks),
\* the arguments bound by position to the parameters (chunks, filename).
CreateStore ==
    /\ pc = "pre_create"
    /\ LET r == create_vector_store(cur.filename, cur.chunks, stores)
       IN  /\ log' = Append(log, Entry("create", files[idx]))
           /\ IF r.raised # "none"
              THEN /\ raised' = r.raised /\ pc' = "aborted"
                   /\ UNCHANGED <<stores, idx>>
              ELSE /\ stores' = r.stores /\ idx' = idx + 1 /\ pc' = "pre_read"
                   /\ UNCHANGED raised
    /\ UNCHANGED <<files, entry, cur>>
    /\ UNCHANGED <<parseVars, chunkVars, csvVars>>

\* The walk of pre_process_vector_store is over.
PreProcessReturns ==
    /\ pc = "pre_read" /\ idx > Len(files)
    /\ pc' = "post_retrieve" /\ idx' = 1
    /\ UNCHANGED <<files, entry, stores, cur, log, raised>>
    /\ UNCHANGED <<parseVars, chunkVars, csvVars>>

\* post_process_results, line 45, where no index is persisted for the file:
\* FileNotFoundError, and nothing in the loop catches it.
RetrieveMissing ==
    /\ pc = "post_retrieve" /\ idx <= Len(files)
    /\ LET r == retrieve_vector_store(get_file_name(join(DATA_PATH, files[idx])), stores)
       IN  /\ r.raised # "none"
           /\ raised' = r.raised /\ pc' = "aborted"
           /\ log' = IF r.loader_called THEN Append(log, Entry("load", files[idx])) ELSE log
    /\ UNCHANGED <<files, entry, idx, stores, cur>>
    /\ UNCHANGED <<parseVars, chunkVars, csvVars>>

\* ... where the index exists and FAISS.load_local returns it.
Retrieve ==
    /\ pc = "post_retrieve" /\ idx <= Len(files)
    /\ LET r == retrieve_vector_store(get_file_name(join(DATA_PATH, files[idx])), stores)
       IN  /\ r.raised = "none"
           /\ log' = Append(log, Entry("load", files[idx]))
           /\ cur' = [index |-> get_file_name(join(DATA_PATH, files[idx]))]
           /\ pc' = "post_ask"
    /\ UNCHANGED <<files, entry, idx, stores, raised>>
    /\ UNCHANGED <<parseVars, chunkVars, csvVars>>

\* ... where the index exists and FAISS.load_local raises: printed and
\* raised again (lines 110-112).
RetrieveLoadFails ==
    /\ pc = "post_retrieve" /\ idx <= Len(files)
    /\ LET r == retrieve_vector_store(get_file_name(join(DATA_PATH, files[idx])), stores)
       IN  /\ r.raised = "none"
           /\ log' = Append(log, Entry("load", files[idx]))
           /\ raised' = "LoadError" /\ pc' = "aborted"
    /\ UNCHANGED <<files, entry, idx, stores, cur>>
    /\ UNCHANGED <<parseVars, chunkVars, csvVars>>

\* post_process_results, line 46: answer = ask_gpt(vector_store)
AskGpt(a) ==
    /\ pc = "post_ask"
    /\ log' = Append(log, Entry("query", files[idx]))
    /\ cur' = [result |-> AnswerText(a), lines |-> a]
    /\ pc' = "post_save"
    /\ UNCHANGED <<files, entry, idx, stores, raised>>
    /\ UNCHANGED <<parseVars, chunkVars, csvVars>>

\* ... where the call of the hosted LLM raises.
AskGptFails ==
    /\ pc = "post_ask"
    /\ log' = Append(log, Entry("query", files[idx]))
    /\ raised' = "LLMError" /\ pc' = "aborted"
    /\ UNCHANGED <<files, entry, idx, stores, cur>>
    /\ UNCHANGED <<parseVars, chunkVars, csvVars>>

\* post_process_results, line 47: save_to_csv(answer, RESULTS_PATH + ...)
SaveAnswer ==
    /\ pc = "post_save"
    /\ csv' = save_to_csv(csv, cur.result)
    /\ calls' = Append(calls, cur.lines)
    /\ log' = Append(log, Entry("append", files[idx]))
    /\ idx' = idx + 1 /\ pc' = "post_retrieve"
    /\ UNCHANGED <<files, entry, stores, cur, raised>>
    /\ UNCHANGED <<parseVars, chunkVars>>

\* The walk of post_process_results is over.
PostProcessReturns ==
    /\ pc = "post_retrieve" /\ idx > Len(files)
    /\ pc' = "done"
    /\ UNCHANGED <<files, entry, idx, stores, cur, log, raised>>
    /\ UNCHANGED <<parseVars, chunkVars, csvVars>>

Next ==
    \/ CallMain
    \/ CallPostProcess
    \/ ReadFile
    \/ CreateStore
    \/ PreProcessReturns
    \/ RetrieveMissing
    \/ Retrieve
    \/ RetrieveLoadFails
    \/ \E a \in Answers : AskGpt(a)
    \/ AskGptFails
    \/ SaveAnswer
    \/ PostProcessReturns

Spec == InitRun /\ [][Next]_vars

\* ------------------------------------------------- Orchestrator: claims

\* The chunks each path makes of the file's content.
TaggedChunks == chunk_file_for_year_content(ArchiveText).chunks
GeneralChunks == chunk_file_content(ArchiveText).chunks

\* C1: a file the pipeline reads whose name is one of 2002.txt ... 2011.txt
\* is chunked by the tagged-era path, every other file by the general path.
C1_DispatchByFileName ==
    pc = "pre_create" =>
        cur.chunks.val =
            IF <<files[idx]>> \in EraFiles THEN TaggedChunks ELSE GeneralChunks

\* C7: once the index-build phase has called create_vector_store for a file,
\* an index holding one document per chunk of that file is persisted under
\* the file's name, where retrieve_vector_store looks for it.
C7_IndexPersistedUnderFileName ==
    \A i \in 1..Len(log) :
        log[i].op = "create" =>
            \E x \in stores :
                /\ x.key = get_file_name(join(DATA_PATH, log[i].file))
                /\ x.docs = Documents(read_txt_file(join(DATA_PATH, log[i].file)).chunked.chunks)

\* The steps of a run of main over the files fs: each file read and handed to
\* the Indexer in turn, then each file loaded, queried and appended in turn.
RECURSIVE BuildSteps(_)
BuildSteps(fs) ==
    IF fs = <<>> THEN <<>>
    ELSE <<Entry("read", Head(fs)), Entry("create", Head(fs))>> \o BuildSteps(Tail(fs))
RECURSIVE ExtractSteps(_)
ExtractSteps(fs) ==
    IF fs = <<>> THEN <<>>
    ELSE <<Entry("load", Head(fs)), Entry("query", Head(fs)), Entry("append", Head(fs))>>
             \o ExtractSteps(Tail(fs))

C8_MissingIndexEndsWalk ==
    raised = "FileNotFoundError" =>
        /\ pc = "aborted" /\ ~ENABLED Next
        /\ ~(\E x \in stores : x.key = get_file_name(join(DATA_PATH, files[idx])))
        /\ \A i \in 1..Len(log) : \A j \in idx..Len(files) :
              log[i].file = files[j] => log[i].op \notin {"load", "query", "append"}
        /\ Len(calls) = idx - 1
        /\ csv.content = IF calls = <<>> THEN <<>> ELSE <<HeaderLine>> \o RowsOfCalls(calls)

\* C8 witness: the second file of the walk has no index, after the first
\* file's rows were appended.
C8_Witness ==
    /\ raised = "FileNotFoundError" /\ idx = 2 /\ Len(files) >= 2
    /\ Len(csv.content) >= 2

====
